---- MODULE Spec2Model ----
(***************************************************************************)
(* The todo slice of the Redux Toolkit tutorial (todoSlice.js) and the     *)
(* TodoList component that drives it (TodoList.jsx).                       *)
(*                                                                         *)
(* Values.  JavaScript compares identifiers with the strict operator !==,  *)
(* which distinguishes a number from a string.  An identifier is therefore *)
(* a record [type, val]: the initial record carries the number 1, and      *)
(* nanoid() returns strings; [type |-> "string", val |-> k] stands for the *)
(* k-th string of a fixed enumeration of nanoid's outputs.                 *)
(*                                                                         *)
(* nanoid is the identifier generator of @reduxjs/toolkit.  It is modelled *)
(* by its contract: each call returns a string it has not returned before  *)
(* in the run, chosen nondeterministically (variable generated holds the   *)
(* strings already returned).                                              *)
(***************************************************************************)
EXTENDS Integers, Sequences, FiniteSets

\* Number of distinct strings nanoid can return in a run of the model.
NumIds == 3

\* The texts a dispatch or a prompt can carry: the empty string and two others.
Texts == {"", "Buy milk", "Hello world!"}

NumberId(n) == [type |-> "number", val |-> n]
StringId(k) == [type |-> "string", val |-> k]

\* The strings nanoid() can return.
NanoIds == {StringId(k) : k \in 1..NumIds}

\* The payloads removeTodo is dispatched with: the number 1 of the initial record,
\* a number no record carries, and the strings nanoid can return.
Payloads == {NumberId(1), NumberId(2)} \cup NanoIds

\* What prompt() returns: null when cancelled, otherwise the typed string.
Null == [kind |-> "null", str |-> ""]
PromptString(s) == [kind |-> "string", str |-> s]
PromptResults == {Null} \cup {PromptString(s) : s \in Texts}

VARIABLES
    state,      \* the slice state: [todos |-> sequence of [id, text]]
    generated,  \* the strings nanoid() has returned so far
    removed,    \* history: the identifiers of the records deleted so far
    last,       \* history: the last action the store reduced, and the todos before it
    ui          \* history: the last UI event, and the todos before it

vars == <<state, generated, removed, last, ui>>

\* Variant: the slice starts with no record.
initialStateEmpty == [todos |-> <<>>]

initialState == [todos |-> <<[id |-> NumberId(1), text |-> "Hello world!"]>>]

\* a !== b
StrictNotEqual(a, b) == a.type # b.type \/ a.val # b.val

\* Variant: if (text !== null), which lets the empty string through.
TruthyNotNull(v) == v.kind = "string"

\* if (text): null and the empty string are falsy, every other string is truthy.
Truthy(v) == v.kind = "string" /\ v.str # ""

\* The outputs nanoid() can produce in the current state.
nanoid == NanoIds \ generated

\* Variant: the predicate inverted, (todo) => todo.id === payload.
RECURSIVE filterInverted(_, _)
filterInverted(arr, payload) ==
    IF arr = <<>> THEN <<>>
    ELSE (IF ~StrictNotEqual(Head(arr).id, payload) THEN <<Head(arr)>> ELSE <<>>)
         \o filterInverted(Tail(arr), payload)

\* Array.prototype.filter with the predicate (todo) => todo.id !== payload.
RECURSIVE filter(_, _)
filter(arr, payload) ==
    IF arr = <<>> THEN <<>>
    ELSE (IF StrictNotEqual(Head(arr).id, payload) THEN <<Head(arr)>> ELSE <<>>)
         \o filter(Tail(arr), payload)

\* Variant: id: state.todos.length + 1 instead of nanoid().
addTodoLengthId(s, id, payload) ==
    [s EXCEPT !.todos = Append(s.todos, [id |-> NumberId(Len(s.todos) + 1),
                                         text |-> payload])]

\* Variant: state.todos.unshift(todo) instead of push.
addTodoUnshift(s, id, payload) ==
    [s EXCEPT !.todos = <<[id |-> id, text |-> payload]>> \o s.todos]

\* Variant: the reducer validates: it ignores an empty text and a text already listed.
addTodoValidating(s, id, payload) ==
    IF payload = "" \/ \E i \in DOMAIN s.todos : s.todos[i].text = payload
    THEN s
    ELSE [s EXCEPT !.todos = Append(s.todos, [id |-> id, text |-> payload])]

\* The addTodo case reducer; id is the value nanoid() returned.
addTodo(s, id, payload) ==
    [s EXCEPT !.todos = Append(s.todos, [id |-> id, text |-> payload])]

\* Variant: state.todos.splice(state.todos.findIndex(...), 1); findIndex gives -1
\* when no record matches, and splice(-1, 1) then drops the last record.
removeTodoSplice(s, payload) ==
    LET hits == {i \in DOMAIN s.todos : ~StrictNotEqual(s.todos[i].id, payload)}
        n == Len(s.todos)
        idx == IF hits = {} THEN n ELSE CHOOSE i \in hits : \A j \in hits : i <= j
    IN [s EXCEPT !.todos = [k \in 1..(IF n = 0 THEN 0 ELSE n - 1) |->
                               IF k < idx THEN s.todos[k] ELSE s.todos[k + 1]]]

\* The removeTodo case reducer.
removeTodo(s, payload) ==
    [s EXCEPT !.todos = filter(s.todos, payload)]

Ids(todos) == {todos[i].id : i \in DOMAIN todos}

\* store.dispatch(addTodo(text))
DispatchAddTodo(text) ==
    \E id \in nanoid :
        /\ state' = addTodo(state, id, text)
        /\ generated' = generated \cup {id}
        /\ removed' = removed
        /\ last' = [op |-> "addTodo", text |-> text, id |-> id, pre |-> state.todos]

\* store.dispatch(removeTodo(payload))
DispatchRemoveTodo(payload) ==
    /\ state' = removeTodo(state, payload)
    /\ generated' = generated
    /\ removed' = removed \cup (Ids(state.todos) \ Ids(state'.todos))
    /\ last' = [op |-> "removeTodo", text |-> "", id |-> payload, pre |-> state.todos]

AddTodo(text) == DispatchAddTodo(text) /\ UNCHANGED ui

\* Variant: the reducer reads the matching record and throws when there is none.
RemoveTodoPresentOnly(payload) ==
    /\ payload \in Ids(state.todos)
    /\ DispatchRemoveTodo(payload)
    /\ UNCHANGED ui

RemoveTodo(payload) == DispatchRemoveTodo(payload) /\ UNCHANGED ui

\* The click handler of the "Add Todo" button; result is what prompt() returned.
HandleAddTodo(result) ==
    IF Truthy(result)
    THEN /\ DispatchAddTodo(result.str)
         /\ ui' = [event |-> "handleAddTodo", prompt |-> result,
                   pre |-> state.todos, dispatched |-> TRUE]
    ELSE /\ UNCHANGED <<state, generated, removed, last>>
         /\ ui' = [event |-> "handleAddTodo", prompt |-> result,
                   pre |-> state.todos, dispatched |-> FALSE]

\* The click handler of the "Remove" button of the i-th list item.
ClickRemove(i) ==
    /\ ui' = [event |-> "clickRemove", prompt |-> Null, pre |-> state.todos,
              dispatched |-> TRUE]
    /\ DispatchRemoveTodo(state.todos[i].id)

Init ==
    /\ state = initialState
    /\ generated = {}
    /\ removed = {}
    /\ last = [op |-> "init", text |-> "", id |-> NumberId(1), pre |-> <<>>]
    /\ ui = [event |-> "init", prompt |-> Null, pre |-> <<>>, dispatched |-> FALSE]

\* The store alone: any action with any payload.
Next ==
    \/ \E text \in Texts : AddTodo(text)
    \/ \E payload \in Payloads : RemoveTodo(payload)

Spec == Init /\ [][Next]_vars

\* The store driven by the TodoList component only.
UINext ==
    \/ \E result \in PromptResults : HandleAddTodo(result)
    \/ \E i \in DOMAIN state.todos : ClickRemove(i)

UISpec == Init /\ [][UINext]_vars

-----------------------------------------------------------------------------
(* Properties of the store (Spec) and of the store behind the UI (UISpec). *)

Todo == [id : Payloads, text : Texts]

HelloWorld == [id |-> NumberId(1), text |-> "Hello world!"]

\* The positions of arr whose record does not carry identifier p.
Kept(arr, p) == {i \in DOMAIN arr : arr[i].id # p}

\* The rank of position i among the kept positions.
Rank(arr, p, i) == Cardinality({j \in Kept(arr, p) : j <= i})

\* C1: in every reachable state the identifiers of the records of todos are
\* pairwise distinct.
C1_UniqueIds ==
    \A i, j \in DOMAIN state.todos :
        i # j => state.todos[i].id # state.todos[j].id

\* Adds and removes have both happened and several records are listed.
C1_Witness ==
    /\ Len(state.todos) >= 3
    /\ removed # {}
    /\ last.op = "addTodo"

\* C2: addTodo(text) grows todos by exactly one; the new record is the last one,
\* carries the given text, and its identifier belongs to no record listed before.
C2_AddAppendsFresh ==
    last.op = "addTodo" =>
        LET n == Len(state.todos) IN
        /\ n = Len(last.pre) + 1
        /\ state.todos[n].text = last.text
        /\ state.todos[n].id \notin Ids(last.pre)

\* An add onto a collection that already holds records, after a removal.
C2_Witness ==
    /\ last.op = "addTodo"
    /\ Len(last.pre) >= 2
    /\ removed # {}

\* C3: removeTodo(id) shrinks todos by exactly one when a record carries id, and
\* then no record carries id; it leaves todos unchanged when no record carries id.
C3_RemoveByPresence ==
    last.op = "removeTodo" =>
        IF last.id \in Ids(last.pre)
        THEN /\ Len(state.todos) = Len(last.pre) - 1
             /\ last.id \notin Ids(state.todos)
        ELSE state.todos = last.pre

\* A removal of a listed identifier from the middle of a longer collection.
C3_Witness ==
    /\ last.op = "removeTodo"
    /\ Len(last.pre) >= 3
    /\ last.id = last.pre[2].id

\* C4: both operations are total: every reachable state is a well-formed store
\* state, removeTodo is enabled for every payload and addTodo for every text
\* (while the model's supply of nanoid strings lasts).
C4_Total ==
    /\ state.todos \in Seq(Todo)
    /\ DOMAIN state = {"todos"}
    /\ \A payload \in Payloads : ENABLED RemoveTodo(payload)
    /\ \A text \in Texts : nanoid # {} => ENABLED AddTodo(text)

\* A removeTodo has completed on the empty collection.
C4_Witness ==
    /\ last.op = "removeTodo"
    /\ last.pre = <<>>
    /\ state.todos = <<>>

\* C5: addTodo does not validate: the empty text, and a text some listed record
\* already carries, are appended like any other text.
C5_NoValidation ==
    (/\ last.op = "addTodo"
     /\ \/ last.text = ""
        \/ \E i \in DOMAIN last.pre : last.pre[i].text = last.text)
    => /\ Len(state.todos) = Len(last.pre) + 1
       /\ state.todos[Len(state.todos)].text = last.text
       /\ SubSeq(state.todos, 1, Len(last.pre)) = last.pre

\* The empty text has been added while a record with the empty text was listed.
C5_Witness ==
    /\ last.op = "addTodo"
    /\ last.text = ""
    /\ \E i \in DOMAIN last.pre : last.pre[i].text = ""
    /\ Len(state.todos) = Len(last.pre) + 1

\* C6: the initial collection is exactly <<{1, "Hello world!"}>>; addTodo("Buy milk")
\* on it yields <<{1, "Hello world!"}, {id2, "Buy milk"}>> with id2 different
\* from 1; removeTodo(1) on that yields <<{id2, "Buy milk"}>>.
C6_Example ==
    /\ last.op = "init" => state.todos = <<HelloWorld>>
    /\ (/\ last.op = "addTodo"
        /\ last.pre = <<HelloWorld>>
        /\ last.text = "Buy milk")
       => /\ Len(state.todos) = 2
          /\ state.todos[1] = HelloWorld
          /\ state.todos[2].text = "Buy milk"
          /\ state.todos[2].id # NumberId(1)
    /\ (/\ last.op = "removeTodo"
        /\ last.id = NumberId(1)
        /\ Len(last.pre) = 2
        /\ last.pre[1] = HelloWorld
        /\ last.pre[2].text = "Buy milk"
        /\ last.pre[2].id # NumberId(1))
       => state.todos = <<last.pre[2]>>

\* The example's final state, reached by its two steps.
C6_Witness ==
    /\ last.op = "removeTodo"
    /\ last.id = NumberId(1)
    /\ Len(last.pre) = 2
    /\ last.pre[1] = HelloWorld
    /\ last.pre[2].text = "Buy milk"
    /\ generated = {last.pre[2].id}
    /\ state.todos = <<last.pre[2]>>

\* C7: addTodo keeps the old collection as a prefix of the new one; removeTodo(id)
\* keeps every record whose identifier differs from id, unchanged and in the same
\* relative order; a record listed before and after an operation keeps its text.
C7_Frame ==
    /\ last.op = "addTodo" =>
           /\ Len(state.todos) >= Len(last.pre)
           /\ \A i \in DOMAIN last.pre : state.todos[i] = last.pre[i]
    /\ last.op = "removeTodo" =>
           /\ Len(state.todos) = Cardinality(Kept(last.pre, last.id))
           /\ \A i \in Kept(last.pre, last.id) :
                  state.todos[Rank(last.pre, last.id, i)] = last.pre[i]
    /\ \A i \in DOMAIN last.pre, j \in DOMAIN state.todos :
           last.pre[i].id = state.todos[j].id =>
               last.pre[i].text = state.todos[j].text

\* A removal from the middle that left records on both sides of the deleted one.
C7_Witness ==
    /\ last.op = "removeTodo"
    /\ Len(last.pre) >= 3
    /\ last.id = last.pre[2].id
    /\ Len(state.todos) = Len(last.pre) - 1
    /\ state.todos[2] = last.pre[3]

C9_IdempotentCommutes ==
    \A a, b \in Payloads :
        /\ removeTodo(removeTodo(state, a), a) = removeTodo(state, a)
        /\ removeTodo(removeTodo(state, a), b) = removeTodo(removeTodo(state, b), a)

\* removeTodo has been applied again with an identifier it had already deleted,
\* while records were still listed.
C9_Witness ==
    /\ last.op = "removeTodo"
    /\ last.id \in removed
    /\ last.id \notin Ids(last.pre)
    /\ Len(state.todos) >= 2

\* C10: an identifier whose record has been deleted is carried by no record of
\* any later state.
C10_NoReuse ==
    Ids(state.todos) \cap removed = {}

\* Records have been added after the initial record and another one were deleted.
C10_Witness ==
    /\ NumberId(1) \in removed
    /\ Cardinality(removed) >= 2
    /\ last.op = "addTodo"
    /\ Len(state.todos) >= 1

====
